---- MODULE Spec2Model ----
(***************************************************************************)
(* Bounded-concurrency article-processing pipeline of the jaundice-rate    *)
(* analyzer: server.py (aiohttp handler, admission semaphore, process pool) *)
(* and main.py (CLI, default thread pool).                                  *)
(*                                                                          *)
(* The orchestrator creates one Article Task per URL of its batch, each     *)
(* task walks Pending -> Fetching -> Sanitizing -> Analyzing -> Done, and   *)
(* asyncio.gather collects the results; the server may take a second        *)
(* request while it serves the first.  Time is abstract: what               *)
(* a URL's endpoint and document do (the "site kind") is an input fixed in  *)
(* Init, and a timeout fires when the stage can have run past its limit.    *)
(***************************************************************************)
EXTENDS Integers, Sequences, FiniteSets, TLC

VARIABLES entry, query, site, workers, pc, urls, st, holds, sem, job, queue,
          result, results, response, other

vars == <<entry, query, site, workers, pc, urls, st, holds, sem, job, queue,
          result, results, response, other>>

(***************************************************************************)
(* Program constants                                                        *)
(***************************************************************************)
MAX_URLS == 10
CONCURRENCY_LIMIT == 10
ANALYZE_TIMEOUT == 3

(***************************************************************************)
(* Bounds of the model                                                      *)
(***************************************************************************)
MaxUrls == 2        \* entries in a request handled by analyze_handler / main
MaxWorkers == 1     \* workers of the executor (os.cpu_count() is not fixed)
Extra == 1          \* tasks beyond the semaphore capacity in a direct batch

URLS == {"u1", "u2"}
RawEntries == {" ", "u1", " u2 "}
Words == {"bad", "good"}
ChargedWords == {"bad"}

BigBatch == CONCURRENCY_LIMIT + Extra

(***************************************************************************)
(* What the endpoint and the document behind a URL do.                      *)
(***************************************************************************)
FetchFailKinds == {"http_error", "conn_error", "timeout", "server_timeout",
                   "decode_error"}
SanitizeFailKinds == {"not_found", "sanitize_crash"}
AnalysisKinds == {"quick", "raises", "slow", "never"}
Kinds == FetchFailKinds \cup SanitizeFailKinds \cup AnalysisKinds

\* Variant: raise_for_status() is not called.
FetchRaisesNoStatusCheck(k) == k \in FetchFailKinds \ {"http_error"}

\* Whether the fetch of an endpoint of kind k raises: session.get fails or
\* times out, raise_for_status() meets a non-2xx status, resp.text() fails.
FetchRaises(k) == k \in FetchFailKinds

\* The exception a failing fetch raises out of session.get / raise_for_status
\* / resp.text().
FetchExc(k) ==
  CASE k = "http_error"     -> "ClientResponseError"
    [] k = "conn_error"     -> "ClientConnectorError"
    [] k = "timeout"        -> "TimeoutError"
    [] k = "server_timeout" -> "ServerTimeoutError"
    [] k = "decode_error"   -> "UnicodeDecodeError"

\* The classes an exception is an instance of.
ExcClasses(e) ==
  CASE e = "TimeoutError"         -> {"TimeoutError", "Exception"}
    [] e = "ServerTimeoutError"   -> {"ServerTimeoutError", "ClientError",
                                      "TimeoutError", "Exception"}
    [] e = "ClientResponseError"  -> {"ClientResponseError", "ClientError",
                                      "Exception"}
    [] e = "ClientConnectorError" -> {"ClientConnectorError", "ClientError",
                                      "OSError", "Exception"}
    [] e = "ArticleNotFound"      -> {"ArticleNotFound", "Exception"}
    [] e = "UnicodeDecodeError"   -> {"UnicodeDecodeError", "ValueError",
                                      "Exception"}
    [] e = "SanitizeError"        -> {"AttributeError", "Exception"}
    [] e = "AnalysisError"        -> {"RuntimeError", "Exception"}
    [] e = "UnpackTooFew"         -> {"ValueError", "Exception"}
    [] e = "UnpackTooMany"        -> {"ValueError", "Exception"}

\* str(e) as main.py formats it into the status.
ErrorStatus(e) ==
  CASE e = "UnicodeDecodeError" -> "ERROR: codec can't decode"
    [] e = "SanitizeError"      -> "ERROR: sanitize failed"
    [] e = "AnalysisError"      -> "ERROR: analysis failed"
    [] e = "UnpackTooFew"       -> "ERROR: not enough values to unpack"
    [] e = "UnpackTooMany"      -> "ERROR: too many values to unpack"
    [] OTHER                    -> "ERROR: unexpected"

\* Variant: the client-error clause tried before the timeout clause.
ServerHandlersClientFirst ==
  << [catch |-> {"ClientError", "TimeoutError"}, status |-> "FETCH_ERROR"],
     [catch |-> {"TimeoutError"},                status |-> "TIMEOUT"],
     [catch |-> {"ArticleNotFound"},             status |-> "PARSING_ERROR"],
     [catch |-> {"Exception"},                   status |-> "INTERNAL_ERROR"] >>

\* Variant: no catch-all clause.
ServerHandlersNoCatchAll ==
  << [catch |-> {"TimeoutError"},                status |-> "TIMEOUT"],
     [catch |-> {"ClientError", "TimeoutError"}, status |-> "FETCH_ERROR"],
     [catch |-> {"ArticleNotFound"},             status |-> "PARSING_ERROR"] >>

\* The except clauses of process_article, in source order.
ServerHandlers ==
  << [catch |-> {"TimeoutError"},                status |-> "TIMEOUT"],
     [catch |-> {"ClientError", "TimeoutError"}, status |-> "FETCH_ERROR"],
     [catch |-> {"ArticleNotFound"},             status |-> "PARSING_ERROR"],
     [catch |-> {"Exception"},                   status |-> "INTERNAL_ERROR"] >>

CliHandlers ==
  << [catch |-> {"TimeoutError"},    status |-> "TIMEOUT"],
     [catch |-> {"ClientError"},     status |-> "FETCH_ERROR"],
     [catch |-> {"ArticleNotFound"}, status |-> "PARSING_ERROR"],
     [catch |-> {"Exception"},       status |-> "ERROR: {e}"] >>

IsCli == entry = "main"

Handlers == IF IsCli THEN CliHandlers ELSE ServerHandlers

\* The status of the first except clause that matches e, "RAISE" when none
\* does and the exception leaves process_article.
Classify(hs, e) ==
  LET matching == {n \in 1..Len(hs) : hs[n].catch \cap ExcClasses(e) # {}}
  IN  IF matching = {} THEN "RAISE"
      ELSE LET first == CHOOSE n \in matching : \A m \in matching : n <= m
           IN  IF hs[first].status = "ERROR: {e}" THEN ErrorStatus(e)
               ELSE hs[first].status


(***************************************************************************)
(* Pure helpers                                                             *)
(***************************************************************************)
\* str.strip() on the entries a request can carry.
Strip(e) ==
  CASE e = " "    -> ""
    [] e = " u2 " -> "u2"
    [] OTHER      -> e

\* [u.strip() for u in urls_param.split(',') if u.strip()]
RECURSIVE ParseUrls(_)
ParseUrls(q) ==
  IF q = <<>> THEN <<>>
  ELSE IF Strip(Head(q)) # "" THEN <<Strip(Head(q))>> \o ParseUrls(Tail(q))
  ELSE ParseUrls(Tail(q))

SeqsUpTo(S, n) == UNION {[1..m -> S] : m \in 0..n}

\* The word bags the tokenizer returns for the documents considered.
Bags == {<<>>, <<"bad">>, <<"bad", "good">>, <<"good", "bad", "bad">>}

\* A site: what the endpoint does and, for a document that is analyzed in
\* time, its words.
Sites == [kind : Kinds \ {"quick"}, words : {<<>>}]
           \cup [kind : {"quick"}, words : Bags]

\* The characters of a word (iterating a str yields its characters).
Chars(w) ==
  CASE w = "bad"  -> <<"b", "a", "d">>
    [] w = "good" -> <<"g", "o", "o", "d">>

\* text_tools.calculate_jaundice_rate: the share of the items that are charged
\* words, in percent (whole percents, rounded down); 0 for no items.
JaundiceRate(items, charged) ==
  IF Len(items) = 0 THEN 0
  ELSE (100 * Cardinality({n \in 1..Len(items) : items[n] \in charged}))
         \div Len(items)

\* analyze_text_task: (score, len(words)) of the tokenized text.
AnalyzeTextTask(words) == [score |-> JaundiceRate(words, ChargedWords),
                           words_count |-> Len(words)]

\* Variant: the two values of the analyzer's tuple land in each other's field.
ServerOkSwapped(url, a, d) == [url |-> url, status |-> "OK",
                               score |-> a.words_count,
                               words_count |-> a.score, duration |-> d]

\* The dict process_article returns on success / from an except clause.
ServerOk(url, a, d) == [url |-> url, status |-> "OK", score |-> a.score,
                        words_count |-> a.words_count, duration |-> d]

CliOk(url, score, wc) == [url |-> url, score |-> score, words_count |-> wc,
                          status |-> "OK"]

\* Variant: an except clause that also reports a score.
FailureWithScore(url, status) == [url |-> url, status |-> status, score |-> 0]

Failure(url, status) == [url |-> url, status |-> status]

NoResult == [none |-> TRUE]
NoResponse == [status |-> 0]

\* A second request to /api/analyze served by the same process: its position,
\* its urls parameter, its parsed URLs and its gathered results.
NoOther == [pc |-> "none", query |-> <<>>, urls |-> <<>>, results |-> <<>>]

\* Every Article Task of the process; the tasks of the second request come
\* after those of the first.
Tasks == DOMAIN st
FirstTasks == 1..(Len(st) - Len(other.urls))
SecondTasks == Tasks \ FirstTasks
Kind(i) == site[urls[i]].kind
Page(i) == site[urls[i]].words
Busy == Cardinality({i \in Tasks : job[i] \in {"running", "waited"}})


(***************************************************************************)
(* Initial states: a request (or a command line) has arrived, nothing has   *)
(* run.  The semaphore is at full capacity and the executor is idle.        *)
(***************************************************************************)
InitCommon ==
  /\ pc = "start"
  /\ urls = <<>>
  /\ st = <<>>
  /\ holds = <<>>
  /\ sem = CONCURRENCY_LIMIT
  /\ job = <<>>
  /\ queue = <<>>
  /\ result = <<>>
  /\ results = <<>>
  /\ response = NoResponse

\* GET /api/analyze?urls=... : the comma-separated entries of the parameter.
HandlerQueries ==
  (SeqsUpTo(RawEntries, MaxUrls) \ {<<>>}) \cup {[n \in 1..(MAX_URLS + 1) |-> "u1"]}

\* python main.py url [url ...]
CliQueries == SeqsUpTo(URLS, MaxUrls)

Init ==
  /\ entry \in {"analyze_handler", "main"}
  /\ query \in (IF entry = "main" THEN CliQueries ELSE HandlerQueries)
  /\ site \in [URLS -> Sites]
  /\ workers \in 1..MaxWorkers
  /\ other = NoOther
  /\ InitCommon

\* The endpoints a direct batch is run against.
DirectKinds == FetchFailKinds \cup {"not_found"}

\* process_article of server.py gathered directly over more URLs than the
\* semaphore has slots; every URL of the batch is the same endpoint.
InitDirect ==
  /\ entry = "gather"
  /\ query = [n \in 1..BigBatch |-> "u1"]
  /\ site \in {[u \in URLS |-> [kind |-> k, words |-> <<>>]] :
                 k \in DirectKinds}
  /\ workers = MaxWorkers
  /\ other = NoOther
  /\ InitCommon

\* The endpoints the batches under load are run against: the first URL of the
\* first request is a document of its own, all other URLs share an endpoint
\* whose fetch fails.
LoadSites ==
  {[u \in URLS |-> [kind |-> IF u = "u2" THEN k2 ELSE k1, words |-> <<>>]] :
     k1 \in {"timeout", "http_error"},
     k2 \in {"never", "not_found", "http_error"}}

\* Two requests to the same server process: the first with as many URLs as
\* the handler accepts, the second arriving while the first is served.
InitShared ==
  /\ entry = "analyze_handler"
  /\ query = <<"u2">> \o [n \in 1..(MAX_URLS - 1) |-> "u1"]
  /\ site \in LoadSites
  /\ workers = MaxWorkers
  /\ other = [NoOther EXCEPT !.pc = "start",
                             !.query = [n \in 1..Extra |-> "u1"]]
  /\ InitCommon

\* python main.py with more URLs on the command line than the semaphore of
\* server.py has slots.
InitCliBig ==
  /\ entry = "main"
  /\ query = [n \in 1..BigBatch |-> "u1"]
  /\ site \in {[u \in URLS |-> [kind |-> k, words |-> <<>>]] :
                 k \in {"timeout", "http_error"}}
  /\ workers = MaxWorkers
  /\ other = NoOther
  /\ InitCommon

(***************************************************************************)
(* Orchestrators                                                            *)
(***************************************************************************)
\* tasks = [process_article(...) for url in urls]: one coroutine per URL.
CreateTasks(us) ==
  /\ urls' = us
  /\ st' = [n \in 1..Len(us) |-> "Pending"]
  /\ holds' = [n \in 1..Len(us) |-> FALSE]
  /\ job' = [n \in 1..Len(us) |-> "none"]
  /\ result' = [n \in 1..Len(us) |-> NoResult]

\* Variant: a batch of exactly MAX_URLS URLs is refused as well.
RejectionAtLimit(us) ==
  IF Len(us) = 0
  THEN [status |-> 400, error |-> "No URLs provided"]
  ELSE IF Len(us) >= MAX_URLS
  THEN [status |-> 400, error |-> "Max 10 URLs allowed"]
  ELSE NoResponse

\* The two validations of analyze_handler: the 400 response the parsed URL
\* list is refused with, or NoResponse when the list is accepted.
Rejection(us) ==
  IF Len(us) = 0
  THEN [status |-> 400, error |-> "No URLs provided"]
  ELSE IF Len(us) > MAX_URLS
  THEN [status |-> 400, error |-> "Max 10 URLs allowed"]
  ELSE NoResponse

analyze_handler ==
  /\ entry = "analyze_handler"
  /\ pc = "start"
  /\ LET us == ParseUrls(query) IN
       IF Rejection(us) # NoResponse
       THEN /\ pc' = "rejected"
            /\ response' = Rejection(us)
            /\ urls' = us
            /\ UNCHANGED <<st, holds, job, result>>
       ELSE /\ pc' = "gathering"
            /\ CreateTasks(us)
            /\ UNCHANGED response
  /\ UNCHANGED <<entry, other, query, site, workers, sem, queue, results>>

\* tasks = [process_article(...) for url in urls] of a request that arrives
\* while the process already runs the tasks of an earlier one.
AppendTasks(us) ==
  /\ urls' = urls \o us
  /\ st' = st \o [n \in 1..Len(us) |-> "Pending"]
  /\ holds' = holds \o [n \in 1..Len(us) |-> FALSE]
  /\ job' = job \o [n \in 1..Len(us) |-> "none"]
  /\ result' = result \o [n \in 1..Len(us) |-> NoResult]

\* Variant: the handler builds a semaphore of its own for its batch, so the
\* batch brings CONCURRENCY_LIMIT fresh slots with it.
SharedSemaphoreOwn == sem' = sem + CONCURRENCY_LIMIT

\* CONCURRENCY_LIMIT is a module-level object: a second request uses the
\* semaphore the first one uses, in whatever state it is.
SharedSemaphore == UNCHANGED sem

\* analyze_handler serving a second request; aiohttp runs it as another task
\* of the same event loop, at any moment after the first request was taken.
analyze_handler_second ==
  /\ other.pc = "start"
  /\ pc \in {"gathering", "returned"}
  /\ LET us == ParseUrls(other.query) IN
       IF Rejection(us) # NoResponse
       THEN /\ other' = [other EXCEPT !.pc = "rejected"]
            /\ UNCHANGED <<urls, st, holds, job, result>>
       ELSE /\ other' = [other EXCEPT !.pc = "gathering", !.urls = us]
            /\ AppendTasks(us)
  /\ SharedSemaphore
  /\ UNCHANGED <<entry, query, site, workers, pc, queue, results, response>>

main ==
  /\ entry = "main"
  /\ pc = "start"
  /\ IF Len(query) = 0
     THEN /\ pc' = "rejected"
          /\ response' = [status |-> 2, error |-> "usage"]
          /\ UNCHANGED <<urls, st, holds, job, result>>
     ELSE /\ pc' = "gathering"
          /\ CreateTasks(query)
          /\ UNCHANGED response
  /\ UNCHANGED <<entry, other, query, site, workers, sem, queue, results>>

gather_direct ==
  /\ entry = "gather"
  /\ pc = "start"
  /\ pc' = "gathering"
  /\ CreateTasks(query)
  /\ UNCHANGED <<entry, other, query, site, workers, sem, queue, results, response>>

\* Variant: results collected as the tasks finish (failed fetches first,
\* analyzed documents last) instead of by position.
GatherAsCompleted ==
  LET idx == [n \in 1..Len(st) |-> n]
      ord == SelectSeq(idx, LAMBDA n : result[n].status # "OK")
               \o SelectSeq(idx, LAMBDA n : result[n].status = "OK")
  IN  [n \in Tasks |-> result[ord[n]]]

\* asyncio.gather(*tasks): the results in the order of the tasks, whatever
\* order they finished in; the first exception a task raises is propagated.
GatherResults == [n \in FirstTasks |-> result[n]]

gather ==
  /\ pc = "gathering"
  /\ \/ \E i \in FirstTasks : st[i] = "Raised"
     \/ \A i \in FirstTasks : st[i] = "Done"
  /\ IF \E i \in FirstTasks : st[i] = "Raised"
     THEN /\ pc' = "aborted"
          /\ response' = [status |-> 500, error |-> "Internal Server Error"]
          /\ UNCHANGED results
     ELSE /\ pc' = "returned"
          /\ results' = GatherResults
          /\ response' = [status |-> IF IsCli THEN 0 ELSE 200, body |-> GatherResults]
  /\ UNCHANGED <<entry, other, query, site, workers, urls, st, holds, sem, job, queue,
                 result>>


\* results = await asyncio.gather(*tasks) of the second request.
gather_second ==
  /\ other.pc = "gathering"
  /\ \/ \E i \in SecondTasks : st[i] = "Raised"
     \/ \A i \in SecondTasks : st[i] = "Done"
  /\ IF \E i \in SecondTasks : st[i] = "Raised"
     THEN other' = [other EXCEPT !.pc = "aborted"]
     ELSE other' = [other EXCEPT !.pc = "returned",
                         !.results = [n \in 1..Len(other.urls) |->
                                        result[Len(st) - Len(other.urls) + n]]]
  /\ UNCHANGED <<entry, query, site, workers, pc, urls, st, holds, sem, job,
                 queue, result, results, response>>

(***************************************************************************)
(* Article Task: helpers                                                    *)
(***************************************************************************)
\* `return {...}`: the task is Done with its Result.
Returns(i, res) ==
  /\ st' = [st EXCEPT ![i] = "Done"]
  /\ result' = [result EXCEPT ![i] = res]

\* Variant: a task whose stage timed out starts over instead of returning.
EndsWithRetry(i, e) ==
  LET s == Classify(Handlers, e) IN
    IF s = "RAISE"
    THEN /\ st' = [st EXCEPT ![i] = "Raised"]
         /\ UNCHANGED result
    ELSE IF s = "TIMEOUT"
    THEN /\ st' = [st EXCEPT ![i] = "Pending"]
         /\ UNCHANGED result
    ELSE Returns(i, Failure(urls[i], s))

\* Exception e leaves the try body: the first matching except clause returns
\* its Result; with no matching clause the exception leaves the coroutine.
Ends(i, e) ==
  LET s == Classify(Handlers, e) IN
    IF s = "RAISE"
    THEN /\ st' = [st EXCEPT ![i] = "Raised"]
         /\ UNCHANGED result
    ELSE Returns(i, Failure(urls[i], s))

\* The event loop runs the first step of the gathered tasks in the order they
\* were created, and the semaphore wakes its waiters first-in first-out.
MyTurn(i) == \A j \in Tasks : j < i => st[j] # "Pending"

\* Variant: the slot is not given back to the semaphore.
ReleaseLeaks(i) ==
  /\ UNCHANGED sem
  /\ holds' = [holds EXCEPT ![i] = FALSE]

\* Variant: the `async with` block also spans sanitize and the analysis, so the
\* slot is still held when the fetch has ended.
ReleaseNotYet(i) == UNCHANGED <<sem, holds>>

\* Variant: the slot is given back twice (an explicit release() inside the
\* `async with` block).
ReleaseTwice(i) ==
  /\ sem' = sem + 2
  /\ holds' = [holds EXCEPT ![i] = FALSE]

\* __aexit__ of `async with CONCURRENCY_LIMIT`.
Release(i) ==
  /\ sem' = sem + 1
  /\ holds' = [holds EXCEPT ![i] = FALSE]

\* loop.run_in_executor(executor, ...): the call runs at once on an idle worker
\* and waits in the executor's queue when every worker is busy.
Dispatch(i) ==
  IF Busy < workers
  THEN /\ job' = [job EXCEPT ![i] = "running"]
       /\ UNCHANGED queue
  ELSE /\ job' = [job EXCEPT ![i] = "queued"]
       /\ queue' = Append(queue, i)

\* The worker that ran the call of task i takes the next queued call.
WorkerFree(i) ==
  IF queue = <<>>
  THEN /\ job' = [job EXCEPT ![i] = "finished"]
       /\ UNCHANGED queue
  ELSE /\ job' = [job EXCEPT ![i] = "finished", ![Head(queue)] = "waited"]
       /\ queue' = Tail(queue)

\* asyncio.wait_for gives up on the call of task i: a call still queued is
\* cancelled, a call already on a worker keeps the worker.
Abandon(i) ==
  /\ job' = IF job[i] = "queued" THEN [job EXCEPT ![i] = "cancelled"] ELSE job
  /\ queue' = SelectSeq(queue, LAMBDA n : n # i)

\* The calls that went to a worker at once and return within the timeout: each
\* frees its worker before the timeout of any call dispatched after it.
ShortRunning ==
  Cardinality({j \in Tasks : job[j] = "running" /\ Kind(j) \in {"quick", "raises"}})

\* The place of the call of task i in the executor's queue.
QueuePos(i) == CHOOSE n \in 1..Len(queue) : queue[n] = i

\* ANALYZE_TIMEOUT, measured from the dispatch, can pass before the call
\* returns: the analysis itself runs longer than the timeout, or the call
\* started late after waiting for a worker, or it is still queued behind more
\* calls than there are workers about to become free.
CanTimeOut(i) ==
  \/ job[i] = "running" /\ Kind(i) \in {"slow", "never"}
  \/ job[i] = "waited"
  \/ job[i] = "queued" /\ QueuePos(i) > ShortRunning

\* time.perf_counter() - start_analysis, in whole seconds, of an analysis that
\* beat the timeout: a call that waited for a worker took longer than one that
\* did not.
Elapsed(i) == IF job[i] = "waited" THEN ANALYZE_TIMEOUT - 1 ELSE 0

(***************************************************************************)
(* Article Task: server.process_article                                     *)
(***************************************************************************)
\* Variant: the fetch is issued without waiting for a free slot.
AdmitNoLimit(i) ==
  /\ ~IsCli
  /\ pc # "start"
  /\ st[i] = "Pending"
  /\ MyTurn(i)
  /\ sem' = sem - 1
  /\ holds' = [holds EXCEPT ![i] = TRUE]
  /\ st' = [st EXCEPT ![i] = "Fetching"]
  /\ UNCHANGED <<entry, other, query, site, workers, pc, urls, job, queue, result,
                 results, response>>

\* Variant: the wait for a slot is under the fetch timeout too, so a task that
\* finds no free slot gives up with asyncio.TimeoutError.
AdmitOrGiveUp(i) ==
  /\ ~IsCli
  /\ pc # "start"
  /\ st[i] = "Pending"
  /\ MyTurn(i)
  /\ IF sem > 0
     THEN /\ sem' = sem - 1
          /\ holds' = [holds EXCEPT ![i] = TRUE]
          /\ st' = [st EXCEPT ![i] = "Fetching"]
          /\ UNCHANGED result
     ELSE /\ Ends(i, "TimeoutError")
          /\ UNCHANGED <<sem, holds>>
  /\ UNCHANGED <<entry, other, query, site, workers, pc, urls, job, queue,
                 results, response>>

\* Pending -> Fetching: acquire a slot, issue session.get.
Admit(i) ==
  /\ ~IsCli
  /\ pc # "start"
  /\ st[i] = "Pending"
  /\ MyTurn(i)
  /\ sem > 0
  /\ sem' = sem - 1
  /\ holds' = [holds EXCEPT ![i] = TRUE]
  /\ st' = [st EXCEPT ![i] = "Fetching"]
  /\ UNCHANGED <<entry, other, query, site, workers, pc, urls, job, queue, result,
                 results, response>>

\* The fetch ends: the body was read, or session.get / raise_for_status /
\* resp.text() raised.  Either way the slot is released on leaving the block.
FetchEnd(i) ==
  /\ ~IsCli
  /\ st[i] = "Fetching"
  /\ Release(i)
  /\ IF FetchRaises(Kind(i))
     THEN Ends(i, FetchExc(Kind(i)))
     ELSE /\ st' = [st EXCEPT ![i] = "Sanitizing"]
          /\ UNCHANGED result
  /\ UNCHANGED <<entry, other, query, site, workers, pc, urls, job, queue, results,
                 response>>

\* sanitize(html), then the dispatch of analyze_text_task to the pool.
Sanitize(i) ==
  /\ ~IsCli
  /\ st[i] = "Sanitizing"
  /\ IF Kind(i) = "not_found"
     THEN Ends(i, "ArticleNotFound") /\ UNCHANGED <<job, queue>>
     ELSE IF Kind(i) = "sanitize_crash"
     THEN Ends(i, "SanitizeError") /\ UNCHANGED <<job, queue>>
     ELSE /\ Dispatch(i)
          /\ st' = [st EXCEPT ![i] = "Analyzing"]
          /\ UNCHANGED result
  /\ UNCHANGED <<entry, other, query, site, workers, pc, urls, holds, sem, results,
                 response>>

\* The worker returns (or raises) before wait_for gives up.
AnalysisDone(i) ==
  /\ ~IsCli
  /\ st[i] = "Analyzing"
  /\ job[i] \in {"running", "waited"}
  /\ Kind(i) \in {"quick", "raises"}
  /\ WorkerFree(i)
  /\ IF Kind(i) = "raises"
     THEN Ends(i, "AnalysisError")
     ELSE Returns(i, ServerOk(urls[i], AnalyzeTextTask(Page(i)), Elapsed(i)))
  /\ UNCHANGED <<entry, other, query, site, workers, pc, urls, holds, sem, results,
                 response>>

\* wait_for raises asyncio.TimeoutError.
AnalysisTimeout(i) ==
  /\ ~IsCli
  /\ st[i] = "Analyzing"
  /\ CanTimeOut(i)
  /\ Abandon(i)
  /\ Ends(i, "TimeoutError")
  /\ UNCHANGED <<entry, other, query, site, workers, pc, urls, holds, sem, results,
                 response>>

(***************************************************************************)
(* Article Task: main.process_article (no admission control, thread pool)   *)
(***************************************************************************)
CliFetchStart(i) ==
  /\ IsCli
  /\ pc = "gathering"
  /\ st[i] = "Pending"
  /\ MyTurn(i)
  /\ st' = [st EXCEPT ![i] = "Fetching"]
  /\ UNCHANGED <<entry, other, query, site, workers, pc, urls, holds, sem, job, queue,
                 result, results, response>>

CliFetchEnd(i) ==
  /\ IsCli
  /\ st[i] = "Fetching"
  /\ IF FetchRaises(Kind(i))
     THEN Ends(i, FetchExc(Kind(i)))
     ELSE /\ st' = [st EXCEPT ![i] = "Sanitizing"]
          /\ UNCHANGED result
  /\ UNCHANGED <<entry, other, query, site, workers, pc, urls, holds, sem, job, queue,
                 results, response>>

CliSanitize(i) ==
  /\ IsCli
  /\ st[i] = "Sanitizing"
  /\ IF Kind(i) = "not_found"
     THEN Ends(i, "ArticleNotFound") /\ UNCHANGED <<job, queue>>
     ELSE IF Kind(i) = "sanitize_crash"
     THEN Ends(i, "SanitizeError") /\ UNCHANGED <<job, queue>>
     ELSE /\ Dispatch(i)
          /\ st' = [st EXCEPT ![i] = "Analyzing"]
          /\ UNCHANGED result
  /\ UNCHANGED <<entry, other, query, site, workers, pc, urls, holds, sem, results,
                 response>>

\* `score, words_count = await wait_for(... split_by_words ...)` unpacks the
\* returned word list into two names; the rate is then computed over the first
\* word (a str, iterated by character) and the second word is not a list.
CliUnpack(i, bag) ==
  IF Len(bag) < 2 THEN Ends(i, "UnpackTooFew")
  ELSE IF Len(bag) > 2 THEN Ends(i, "UnpackTooMany")
  ELSE Returns(i, CliOk(urls[i], JaundiceRate(Chars(bag[1]), ChargedWords), 0))

CliAnalysisDone(i) ==
  /\ IsCli
  /\ st[i] = "Analyzing"
  /\ job[i] \in {"running", "waited"}
  /\ Kind(i) \in {"quick", "raises"}
  /\ WorkerFree(i)
  /\ IF Kind(i) = "raises"
     THEN Ends(i, "AnalysisError")
     ELSE CliUnpack(i, Page(i))
  /\ UNCHANGED <<entry, other, query, site, workers, pc, urls, holds, sem, results,
                 response>>

CliAnalysisTimeout(i) ==
  /\ IsCli
  /\ st[i] = "Analyzing"
  /\ CanTimeOut(i)
  /\ Abandon(i)
  /\ Ends(i, "TimeoutError")
  /\ UNCHANGED <<entry, other, query, site, workers, pc, urls, holds, sem, results,
                 response>>

(***************************************************************************)
(* Executor: a call whose task no longer waits for it                       *)
(***************************************************************************)
\* Variant: the value of a call that finishes after its task gave up on it is
\* written into the task's Result.
AbandonedCallDelivers(i) ==
  /\ st[i] \in {"Done", "Raised"}
  /\ job[i] \in {"running", "waited"}
  /\ Kind(i) # "never"
  /\ WorkerFree(i)
  /\ result' = [result EXCEPT ![i] =
                  ServerOk(urls[i], AnalyzeTextTask(Page(i)), ANALYZE_TIMEOUT)]
  /\ UNCHANGED <<entry, other, query, site, workers, pc, urls, st, holds, sem,
                 results, response>>

\* An abandoned call that does finish frees its worker; its value is dropped.
AbandonedCallEnds(i) ==
  /\ st[i] \in {"Done", "Raised"}
  /\ job[i] \in {"running", "waited"}
  /\ Kind(i) # "never"
  /\ WorkerFree(i)
  /\ UNCHANGED <<entry, other, query, site, workers, pc, urls, st, holds, sem, result,
                 results, response>>

(***************************************************************************)
(* Specifications                                                           *)
(***************************************************************************)
Next ==
  \/ analyze_handler
  \/ main
  \/ gather
  \/ \E i \in Tasks : Admit(i)
  \/ \E i \in Tasks : FetchEnd(i)
  \/ \E i \in Tasks : Sanitize(i)
  \/ \E i \in Tasks : AnalysisDone(i)
  \/ \E i \in Tasks : AnalysisTimeout(i)
  \/ \E i \in Tasks : CliFetchStart(i)
  \/ \E i \in Tasks : CliFetchEnd(i)
  \/ \E i \in Tasks : CliSanitize(i)
  \/ \E i \in Tasks : CliAnalysisDone(i)
  \/ \E i \in Tasks : CliAnalysisTimeout(i)
  \/ \E i \in Tasks : AbandonedCallEnds(i)

Spec == Init /\ [][Next]_vars

\* server.process_article gathered directly, next to the request paths.
InitBig == Init \/ InitDirect

NextBig == Next \/ gather_direct

SpecBig == InitBig /\ [][NextBig]_vars

\* The process under load: two concurrent requests sharing the semaphore, and
\* a command line longer than the semaphore is wide, next to the small ones.
InitLoad == Init \/ InitShared \/ InitCliBig

NextLoad == Next \/ analyze_handler_second \/ gather_second

SpecLoad == InitLoad /\ [][NextLoad]_vars

\* The batches whose completion is followed to the end: a direct batch larger
\* than the semaphore against an endpoint whose fetch fails, and the requests
\* and command lines whose URLs are all served the same way.
InitLive ==
  \/ InitDirect /\ FetchRaises(site["u1"].kind)
  \/ Init /\ site["u1"] = site["u2"]

\* The event loop and the executor keep running: a step that can be taken is
\* eventually taken.
FairSpecLive == InitLive /\ [][NextBig]_vars /\ WF_vars(NextBig)


(***************************************************************************)
(* Properties                                                               *)
(***************************************************************************)
Fetching == {i \in Tasks : st[i] = "Fetching"}

\* C1: when the orchestrator returns, there is exactly one result per input
\* URL and the i-th result carries the i-th URL, duplicates included.
C1_OneResultPerUrlInOrder ==
  pc = "returned" =>
    /\ Len(results) = Len(urls)
    /\ \A n \in 1..Len(urls) : results[n].url = urls[n]

\* A returned batch that holds the same URL twice, its two tasks having ended
\* differently.
C1_Witness ==
  /\ pc = "returned"
  /\ \E a, b \in 1..Len(urls) :
       /\ a < b /\ urls[a] = urls[b]
       /\ results[a].url = results[b].url
       /\ results[a].status # results[b].status

\* C2: at most CONCURRENCY_LIMIT tasks of server.process_article are in the
\* Fetching state at once, also for a batch larger than the limit.
C2_FetchingAtMostLimit ==
  ~IsCli => Cardinality(Fetching) <= CONCURRENCY_LIMIT

\* The limit is reached and a task of the batch is kept waiting.
C2_Witness ==
  /\ ~IsCli
  /\ Cardinality(Fetching) = CONCURRENCY_LIMIT
  /\ sem = 0
  /\ \E i \in Tasks : st[i] = "Pending"

\* C3: a task of server.process_article whose fetch exceeds the fetch timeout
\* ends with TIMEOUT, also when the error raised is a client error as well.
C3_FetchTimeoutIsTimeout ==
  \A i \in Tasks :
    (~IsCli /\ st[i] = "Done" /\ Kind(i) \in {"timeout", "server_timeout"})
      => result[i].status = "TIMEOUT"

\* A fetch timed out with an error that is both a timeout and a client error.
C3_Witness ==
  \E i \in Tasks :
    /\ ~IsCli /\ st[i] = "Done" /\ Kind(i) = "server_timeout"
    /\ {"ClientError", "TimeoutError"} \subseteq ExcClasses(FetchExc(Kind(i)))
    /\ result[i].status = "TIMEOUT"


Statuses == {"OK", "TIMEOUT", "FETCH_ERROR", "PARSING_ERROR", "INTERNAL_ERROR"}

\* The status the error taxonomy gives a task for what its own fetch, its own
\* sanitizer call and its own analysis do.
OwnStatus(k) ==
  CASE k \in {"timeout", "server_timeout"}          -> "TIMEOUT"
    [] k \in {"http_error", "conn_error"}           -> "FETCH_ERROR"
    [] k = "not_found"                              -> "PARSING_ERROR"
    [] k \in {"decode_error", "sanitize_crash", "raises"} -> "INTERNAL_ERROR"
    [] k \in {"slow", "never"}                      -> "TIMEOUT"
    [] k = "quick"                                  -> "OK"

\* C4: the status of a task of server.process_article is the one its own
\* fetch, sanitizer and analysis call for, whatever its siblings do.
C4_OwnStatusWhateverSiblingsDo ==
  \A i \in Tasks :
    (~IsCli /\ st[i] = "Done") => result[i].status = OwnStatus(Kind(i))

\* C5: every batch that was started completes: all its tasks reach Done and
\* the gather returns.
C5_BatchCompletes ==
  (pc = "gathering") ~> (pc = "returned" /\ \A i \in Tasks : st[i] = "Done")

\* A batch larger than the semaphore capacity has returned.
C5_Witness ==
  /\ pc = "returned"
  /\ Len(urls) > CONCURRENCY_LIMIT
  /\ sem = CONCURRENCY_LIMIT
  /\ \A i \in Tasks : st[i] = "Done"

\* C6: every Result of server.py and of main.py carries a status of the closed
\* set OK, TIMEOUT, FETCH_ERROR, PARSING_ERROR, INTERNAL_ERROR.
C6_StatusInClosedSet ==
  \A i \in Tasks : st[i] = "Done" => result[i].status \in Statuses

OkFields == {"score", "words_count", "duration"}

\* C7: a Result of server.process_article has score, words_count and duration
\* when its status is OK and none of them otherwise.
C7_FieldsIffOk ==
  \A i \in Tasks :
    (~IsCli /\ st[i] = "Done") =>
      IF result[i].status = "OK"
      THEN OkFields \subseteq DOMAIN result[i]
      ELSE OkFields \cap DOMAIN result[i] = {}

\* One task of a server batch ended OK with the three fields, another failed.
C7_Witness ==
  /\ ~IsCli
  /\ \E i, j \in Tasks :
       /\ st[i] = "Done" /\ result[i].status = "OK"
       /\ DOMAIN result[i] = {"url", "status"} \cup OkFields
       /\ st[j] = "Done" /\ result[j].status # "OK"
       /\ DOMAIN result[j] = {"url", "status"}

\* C8: no failure leaves server.process_article: no task ends by raising, the
\* gather never aborts, and a failure that is no timeout, client error or
\* ArticleNotFound gives INTERNAL_ERROR.
C8_FailuresCaughtAtTaskBoundary ==
  ~IsCli =>
    /\ pc # "aborted"
    /\ \A i \in Tasks :
         /\ st[i] # "Raised"
         /\ (st[i] = "Done" /\ Kind(i) \in {"decode_error", "sanitize_crash"})
              => result[i].status = "INTERNAL_ERROR"
         /\ (st[i] = "Done" /\ Kind(i) = "raises")
              => result[i].status \in {"INTERNAL_ERROR", "TIMEOUT"}

\* A server batch returned although the body of one task could not be decoded,
\* the sanitizer of another crashed or its analysis raised.
C8_Witness ==
  /\ ~IsCli
  /\ pc = "returned"
  /\ \E i, j \in Tasks :
       /\ Kind(i) = "decode_error" /\ result[i].status = "INTERNAL_ERROR"
       /\ Kind(j) \in {"sanitize_crash", "raises"}
       /\ result[j].status = "INTERNAL_ERROR"

C10_NotFoundIsParsingError ==
  \A i \in Tasks :
    (~IsCli /\ Kind(i) = "not_found") =>
      /\ job[i] = "none"
      /\ st[i] # "Analyzing"
      /\ st[i] \in {"Sanitizing", "Done"} => ~holds[i]
      /\ st[i] = "Done" => result[i].status = "PARSING_ERROR"

\* The sanitizer has failed on a fetched document while a sibling still holds
\* an admission slot.
C10_Witness ==
  /\ ~IsCli
  /\ \E i, j \in Tasks :
       /\ Kind(i) = "not_found" /\ st[i] = "Done"
       /\ result[i].status = "PARSING_ERROR"
       /\ ~holds[i] /\ job[i] = "none"
       /\ holds[j] /\ sem = CONCURRENCY_LIMIT - 1

\* The entries of the urls parameter that are not blank.
NonBlank == Cardinality({k \in DOMAIN query : Strip(query[k]) # ""})

\* C11: analyze_handler answers 400 exactly when the URL list, after trimming
\* and dropping the empty entries, is empty or has more than MAX_URLS entries;
\* a rejected request creates no Article Task, takes no admission slot and
\* starts no fetch or analysis; a list of 1 to MAX_URLS URLs is never rejected
\* and gets one task per URL.
C11_RejectsEmptyAndOversized ==
  (entry = "analyze_handler" /\ pc # "start") =>
    /\ pc = "rejected" <=> (NonBlank = 0 \/ NonBlank > MAX_URLS)
    /\ pc = "rejected" =>
         /\ response.status = 400
         /\ st = <<>> /\ job = <<>> /\ queue = <<>>
         /\ sem = CONCURRENCY_LIMIT
         /\ results = <<>>
    /\ NonBlank \in 1..MAX_URLS =>
         /\ Cardinality(FirstTasks) = NonBlank
         /\ response.status # 400

\* A request with MAX_URLS + 1 URLs has been answered 400 with nothing started.
C11_Witness ==
  /\ entry = "analyze_handler"
  /\ pc = "rejected"
  /\ Len(query) = MAX_URLS + 1
  /\ response = [status |-> 400, error |-> "Max 10 URLs allowed"]
  /\ st = <<>>

\* C12: in server.process_article, when the fetch succeeded, the sanitizer
\* returned a text and the analysis returns before wait_for gives up, the task
\* ends with status OK, the score and the word count the analyzer computed for
\* the document's words (none, one or several) and a duration.
C12_AnalyzedDocumentIsOk ==
  [][\A i \in Tasks :
       (/\ ~IsCli
        /\ Kind(i) = "quick"
        /\ st[i] = "Analyzing" /\ st'[i] = "Done"
        /\ job'[i] = "finished")
       => /\ DOMAIN result'[i] =
               {"url", "status", "score", "words_count", "duration"}
          /\ result'[i].url = urls[i]
          /\ result'[i].status = "OK"
          /\ result'[i].score = JaundiceRate(Page(i), ChargedWords)
          /\ result'[i].words_count = Len(Page(i))
          /\ result'[i].duration \in 0..ANALYZE_TIMEOUT]_vars

\* A server batch returned OK for a document without words and for one of
\* three words, two of them charged.
C12_Witness ==
  /\ ~IsCli
  /\ pc = "returned"
  /\ \E i, j \in Tasks :
       /\ Page(i) = <<>> /\ result[i].status = "OK"
       /\ result[i].words_count = 0 /\ result[i].score = 0
       /\ Len(Page(j)) = 3 /\ result[j].status = "OK"
       /\ result[j].words_count = 3 /\ result[j].score = 66

\* The tasks that hold an admission slot.
Holders == {i \in Tasks : holds[i]}

\* C13: a task of server.process_article holds a slot exactly while it is
\* Fetching and gives it back once when the fetch ends, however it ends: the
\* free slots and the held slots always add up to CONCURRENCY_LIMIT, and when
\* every task has ended the semaphore is back at full capacity.
C13_SlotsConserved ==
  ~IsCli =>
    /\ sem \in 0..CONCURRENCY_LIMIT
    /\ sem + Cardinality(Holders) = CONCURRENCY_LIMIT
    /\ \A i \in Tasks : holds[i] <=> st[i] = "Fetching"
    /\ (\A i \in Tasks : st[i] \in {"Done", "Raised"}) => sem = CONCURRENCY_LIMIT

\* More tasks than slots have all ended, one after a successful fetch and the
\* others after a failed one, and every slot is free again.
C13_Witness ==
  /\ ~IsCli
  /\ Len(st) > CONCURRENCY_LIMIT
  /\ \A i \in Tasks : st[i] = "Done"
  /\ \E i, j \in Tasks :
       /\ result[i].status = "PARSING_ERROR"
       /\ result[j].status \in {"TIMEOUT", "FETCH_ERROR"}
  /\ sem = CONCURRENCY_LIMIT

\* C14: a task of server.process_article holds no admission slot while it is
\* Sanitizing or Analyzing, so the analyses under way are not counted against
\* the semaphore, and a task whose turn it is to be admitted waits only while
\* CONCURRENCY_LIMIT fetches are in flight, never for a slow or stuck analysis.
C14_NoSlotHeldAfterFetch ==
  ~IsCli =>
    /\ \A i \in Tasks : st[i] \in {"Sanitizing", "Analyzing"} => ~holds[i]
    /\ \A i \in Tasks :
         (st[i] = "Pending" /\ MyTurn(i) /\ ~ENABLED Admit(i))
           => Cardinality(Fetching) = CONCURRENCY_LIMIT

\* An analysis that never returns is under way, every slot is taken by a
\* fetch, and one of the fetches is that of the task created last, admitted
\* after the analysis was dispatched.
C14_Witness ==
  /\ ~IsCli
  /\ \E i \in Tasks :
       /\ st[i] = "Analyzing" /\ Kind(i) = "never" /\ job[i] = "running"
  /\ sem = 0
  /\ Len(st) > CONCURRENCY_LIMIT
  /\ st[Len(st)] = "Fetching"

\* C15: in server.process_article an analysis that does not return within
\* ANALYZE_TIMEOUT of its dispatch ends the task with status TIMEOUT; the
\* timeout can fire while the worker is still busy with the call, and whatever
\* the abandoned call does afterwards, the task stays Done with that Result.
C15_TimeoutAbandonsAnalysis ==
  /\ [](\A i \in Tasks :
          ~IsCli =>
            /\ (st[i] = "Done" /\ Kind(i) \in {"slow", "never"})
                 => result[i] = [url |-> urls[i], status |-> "TIMEOUT"]
            /\ (st[i] = "Analyzing" /\ Kind(i) \in {"slow", "never"}
                  /\ job[i] = "running")
                 => ENABLED AnalysisTimeout(i))
  /\ [][\A i \in Tasks :
          (~IsCli /\ st[i] = "Done" /\ result[i].status = "TIMEOUT")
            => (st'[i] = "Done" /\ result'[i] = result[i])]_vars

\* The batch has been answered with TIMEOUT for a document whose analysis is
\* still running on its worker, and with TIMEOUT for one whose abandoned
\* analysis has finished since.
C15_Witness ==
  /\ ~IsCli
  /\ pc = "returned"
  /\ \E i, j \in Tasks :
       /\ Kind(i) = "never" /\ job[i] = "running"
       /\ results[i].status = "TIMEOUT"
       /\ Kind(j) = "slow" /\ job[j] = "finished"
       /\ results[j].status = "TIMEOUT"

\* The place of a state on the path of an Article Task.
Rank(s) ==
  CASE s = "Pending"    -> 0
    [] s = "Fetching"   -> 1
    [] s = "Sanitizing" -> 2
    [] s = "Analyzing"  -> 3
    [] OTHER            -> 4

\* C16: an Article Task only moves forward on Pending, Fetching, Sanitizing,
\* Analyzing, Done and stays where it ended; it takes a slot only when it leaves
\* Pending, its analysis is dispatched only when it enters Analyzing and is not
\* dispatched again, and its Result is written in the step that ends it and
\* never afterwards.
C16_ForwardOnly ==
  [][\A i \in Tasks :
       /\ Rank(st'[i]) >= Rank(st[i])
       /\ (~holds[i] /\ holds'[i]) => (st[i] = "Pending" /\ st'[i] = "Fetching")
       /\ (job[i] = "none" /\ job'[i] # "none")
            => (st[i] = "Sanitizing" /\ st'[i] = "Analyzing")
       /\ job[i] # "none" => job'[i] # "none"
       /\ st'[i] # st[i] => Rank(st'[i]) > Rank(st[i])
       /\ result'[i] # result[i]
            => (result[i] = NoResult /\ st[i] # "Done" /\ st'[i] = "Done")
       /\ (st[i] # "Done" /\ st'[i] = "Done") => result'[i] # NoResult]_vars

\* A returned batch holds a task that went through every stage and one that
\* ended when its fetch failed.
C16_Witness ==
  /\ pc = "returned"
  /\ \E i, j \in Tasks :
       /\ st[i] = "Done" /\ job[i] = "finished" /\ result[i].status = "OK"
       /\ st[j] = "Done" /\ job[j] = "none" /\ result[j].status = "FETCH_ERROR"

\* C17: in server.process_article the wait for an admission slot has no
\* timeout and no failure of its own: a Pending task has no Result, the only
\* step it takes is its admission, and a task that ended without an analysis
\* has the status of its own fetch or sanitizer call, however long it waited.
C17_WaitingNeverFails ==
  /\ [](\A i \in Tasks :
          ~IsCli =>
            /\ st[i] = "Pending" => (result[i] = NoResult /\ ~holds[i])
            /\ (st[i] = "Done" /\ job[i] = "none")
                 => result[i].status = OwnStatus(Kind(i)))
  /\ [][\A i \in Tasks :
          (~IsCli /\ st[i] = "Pending")
            => (st'[i] \in {"Pending", "Fetching"} /\ result'[i] = NoResult)]_vars

\* Every slot is held by a fetch that will fail with an HTTP error, and the
\* task whose turn it is waits, without a Result.
C17_Witness ==
  /\ ~IsCli
  /\ sem = 0
  /\ \E i \in Tasks :
       /\ st[i] = "Pending" /\ MyTurn(i) /\ ~ENABLED Admit(i)
       /\ Kind(i) = "http_error"
       /\ result[i] = NoResult

\* C18: the command-line batch of main.py never has more than
\* CONCURRENCY_LIMIT fetches in flight, however many URLs it is given.
C18_CliFetchingAtMostLimit ==
  IsCli => Cardinality(Fetching) <= CONCURRENCY_LIMIT

\* C19: in main.process_article a document that was fetched, sanitized and
\* analyzed in time gives status OK, the score of its whole word bag and the
\* number of its words, for a bag of any length.
C19_CliScoresWholeBag ==
  \A i \in Tasks :
    (/\ IsCli
     /\ st[i] = "Done"
     /\ Kind(i) = "quick"
     /\ result[i].status # "TIMEOUT")
    => /\ result[i].status = "OK"
       /\ result[i].score = JaundiceRate(Page(i), ChargedWords)
       /\ result[i].words_count = Len(Page(i))

\* C20: the ceiling is one for the whole server process: the tasks of two
\* requests served at the same time draw on the same semaphore, so the fetches
\* in flight of both requests together never exceed CONCURRENCY_LIMIT, and a
\* task of one request is admitted only when a slot is free of the tasks of
\* both.
C20_CeilingIsProcessWide ==
  ~IsCli =>
    /\ Cardinality(Fetching \cap FirstTasks)
         + Cardinality(Fetching \cap SecondTasks) <= CONCURRENCY_LIMIT
    /\ sem = CONCURRENCY_LIMIT - Cardinality(Fetching \cap FirstTasks)
                               - Cardinality(Fetching \cap SecondTasks)
    /\ \A i \in SecondTasks :
         ENABLED Admit(i) => Cardinality(Fetching) < CONCURRENCY_LIMIT

\* A task of the second request waits in Pending while every slot is held by
\* a fetch of the first request.
C20_Witness ==
  /\ ~IsCli
  /\ pc = "gathering" /\ other.pc = "gathering"
  /\ Cardinality(Fetching \cap FirstTasks) = CONCURRENCY_LIMIT
  /\ \E i \in SecondTasks : st[i] = "Pending" /\ MyTurn(i) /\ ~ENABLED Admit(i)

====
